---------------------------- MODULE Spec2Model ----------------------------
(***************************************************************************)
(* Model of the data preprocessing pipeline of the Smart Stock Inventory   *)
(* Optimization repository (src/preprocessing/preprocess.py) and of the    *)
(* scripts that recompute its columns.                                     *)
(*                                                                         *)
(* The pipeline is a batch job: main() loads the raw table, inspects it,   *)
(* derives five columns, validates, writes a report and writes the         *)
(* processed table.  The derived columns are computed by pandas/numpy on   *)
(* int64 and float64 columns, so the arithmetic below is IEEE-754 binary64 *)
(* arithmetic, modelled bit for bit: a float64 is a sign, a 53-bit         *)
(* significand (a sequence of bits, most significant first) and an         *)
(* exponent; NaN, the infinities and the signed zeros are values of their  *)
(* own.                                                                    *)
(***************************************************************************)
EXTENDS Integers, Sequences, FiniteSets, TLC

(***************************************************************************)
(* Natural numbers of any size, as sequences of bits, most significant     *)
(* bit first (TLC's integers are 32 bits wide, a float64 significand is    *)
(* not).                                                                   *)
(***************************************************************************)
Abs(n) == IF n < 0 THEN -n ELSE n

Max(a, b) == IF a >= b THEN a ELSE b

Zeros(n) == [i \in 1..n |-> 0]

RECURSIVE NatToBits(_)
NatToBits(n) == IF n = 0 THEN << >> ELSE Append(NatToBits(n \div 2), n % 2)

RECURSIVE BitsToNat(_)
BitsToNat(b) ==
    IF b = << >> THEN 0
    ELSE 2 * BitsToNat(SubSeq(b, 1, Len(b) - 1)) + b[Len(b)]

BitLen(n) == Len(NatToBits(n))

\* b without its leading zero bits
Strip(b) ==
    LET ones == {i \in 1..Len(b) : b[i] = 1}
    IN  IF ones = {} THEN << >>
        ELSE LET f == CHOOSE i \in ones : \A j \in ones : i <= j
             IN  SubSeq(b, f, Len(b))

\* Arithmetic on bit sequences goes through limbs of LimbBits bits (a
\* sequence of naturals below 2^LimbBits, most significant first), so that a
\* limb times a small natural still fits a TLC integer.
LimbBits == 6 + 6

RECURSIVE Pow2(_)
Pow2(n) == IF n = 0 THEN 1 ELSE 2 * Pow2(n - 1)

ToLimbs(b) ==
    LET n   == (Len(b) + LimbBits - 1) \div LimbBits
        pad == Zeros(n * LimbBits - Len(b)) \o b
    IN  [j \in 1..n |-> BitsToNat(SubSeq(pad, (j - 1) * LimbBits + 1, j * LimbBits))]

FromLimbs(l) ==
    [i \in 1..(Len(l) * LimbBits) |->
        (l[(i - 1) \div LimbBits + 1] \div Pow2(LimbBits - 1 - ((i - 1) % LimbBits))) % 2]

\* l * k for a small natural k: schoolbook multiplication from the least
\* significant limb, carry kept in an integer
RECURSIVE MulAux(_, _, _, _, _)
MulAux(l, i, k, carry, acc) ==
    IF i = 0 THEN <<carry \div Pow2(LimbBits), carry % Pow2(LimbBits)>> \o acc
    ELSE LET t == l[i] * k + carry
         IN  MulAux(l, i - 1, k, t \div Pow2(LimbBits), <<t % Pow2(LimbBits)>> \o acc)

\* b * k for a bit sequence b and a natural k < 2^18
MulSmall(b, k) == Strip(FromLimbs(MulAux(ToLimbs(b), Len(ToLimbs(b)), k, 0, << >>)))

\* l divided by a small natural k > 0: long division from the most
\* significant limb; q is the quotient, r the remainder
RECURSIVE DivAux(_, _, _, _, _)
DivAux(l, i, k, rem, acc) ==
    IF i > Len(l) THEN [q |-> acc, r |-> rem]
    ELSE LET t == rem * Pow2(LimbBits) + l[i]
         IN  DivAux(l, i + 1, k, t % k, Append(acc, t \div k))

\* b divided by a natural 0 < k < 2^18: q the quotient (a bit sequence), r the
\* remainder
DivSmall(b, k) ==
    LET d == DivAux(ToLimbs(b), 1, k, 0, << >>)
    IN  [q |-> Strip(FromLimbs(d.q)), r |-> d.r]

\* b + 1
AddOne(b) ==
    LET zs == {i \in 1..Len(b) : b[i] = 0}
    IN  IF zs = {} THEN <<1>> \o Zeros(Len(b))
        ELSE LET j == CHOOSE i \in zs : \A l \in zs : l <= i
             IN  [i \in 1..Len(b) |-> IF i < j THEN b[i] ELSE IF i = j THEN 1 ELSE 0]

\* a < b for stripped bit sequences
BitsLess(a, b) ==
    \/ Len(a) < Len(b)
    \/ /\ Len(a) = Len(b)
       /\ LET d == {i \in 1..Len(a) : a[i] # b[i]}
          IN  d # {} /\ LET f == CHOOSE i \in d : \A j \in d : i <= j
                        IN  b[f] = 1

\* limb-wise a + b (sign = 1) or a - b (sign = -1, a >= b) of two limb
\* sequences of the same length, from the least significant limb
RECURSIVE PlusAux(_, _, _, _, _, _)
PlusAux(a, b, sign, i, carry, acc) ==
    IF i = 0 THEN <<carry>> \o acc
    ELSE LET t == a[i] + sign * b[i] + carry + Pow2(LimbBits)
         IN  PlusAux(a, b, sign, i - 1, t \div Pow2(LimbBits) - 1,
                     <<t % Pow2(LimbBits)>> \o acc)

\* a + b on bit sequences
BitsPlus(a, b) ==
    LET n  == Max(Len(a), Len(b))
        la == ToLimbs(Zeros(n - Len(a)) \o a)
        lb == ToLimbs(Zeros(n - Len(b)) \o b)
    IN  Strip(FromLimbs(PlusAux(la, lb, 1, Len(la), 0, << >>)))

\* a - b on bit sequences, a >= b
BitsMinus(a, b) ==
    LET n  == Max(Len(a), Len(b))
        la == ToLimbs(Zeros(n - Len(a)) \o a)
        lb == ToLimbs(Zeros(n - Len(b)) \o b)
    IN  Strip(FromLimbs(Tail(PlusAux(la, lb, -1, Len(la), 0, << >>))))

(***************************************************************************)
(* float64 values.  k is the kind; s the sign bit; for a finite nonzero    *)
(* value m is the 53-bit significand (m[1] = 1) and the value is           *)
(* (-1)^s * m * 2^e.  Subnormals and overflow to infinity are out of the   *)
(* range of the tables modelled here.                                      *)
(***************************************************************************)
MantBits == 53

NaN == [k |-> "nan", s |-> 0, m |-> << >>, e |-> 0]

Inf(s) == [k |-> "inf", s |-> s, m |-> << >>, e |-> 0]

Zero(s) == [k |-> "zero", s |-> s, m |-> << >>, e |-> 0]

Fin(s, m, e) == [k |-> "fin", s |-> s, m |-> m, e |-> e]

Xor(a, b) == (a + b) % 2

SignBit(n) == IF n < 0 THEN 1 ELSE 0

\* round-to-nearest, ties-to-even of q * 2^e (plus a fraction below q's last
\* bit when sticky) to 53 bits; q is stripped and has at least 55 bits
RoundBits(s, q, sticky, e) ==
    LET L    == Len(q)
        mant == SubSeq(q, 1, MantBits)
        rb   == q[MantBits + 1]
        st   == sticky \/ \E i \in (MantBits + 2)..L : q[i] = 1
        up   == rb = 1 /\ (st \/ mant[MantBits] = 1)
        inc  == AddOne(mant)
    IN  IF ~up THEN Fin(s, mant, e + L - MantBits)
        ELSE IF Len(inc) > MantBits
             THEN Fin(s, SubSeq(inc, 1, MantBits), e + L - MantBits + 1)
             ELSE Fin(s, inc, e + L - MantBits)

\* the float64 nearest to (-1)^s * (n / k) * 2^e, n a bit sequence, k > 0 small
MakeFloat(s, n, k, e) ==
    LET n0 == Strip(n)
    IN  IF n0 = << >> THEN Zero(s)
        ELSE LET sh == Max(0, MantBits + 2 + BitLen(k) - Len(n0))
                 d  == DivSmall(n0 \o Zeros(sh), k)
             IN  RoundBits(s, d.q, d.r # 0, e - sh)

\* int64 -> float64 (exact below 2^53)
FromInt(n) == MakeFloat(SignBit(n), NatToBits(Abs(n)), 1, 0)

\* numpy true_divide on two int64: both are converted to float64 (exactly) and
\* divided; x/0 is +-inf, 0/0 is NaN, and nothing is raised
IntTrueDiv(a, b) ==
    IF b = 0
    THEN IF a = 0 THEN NaN ELSE Inf(SignBit(a))
    ELSE MakeFloat(Xor(SignBit(a), SignBit(b)), NatToBits(Abs(a)), Abs(b), 0)

\* float64 * int64: the integer is converted to float64, the product is
\* rounded to nearest
FMulInt(f, n) ==
    CASE f.k = "nan"  -> NaN
      [] f.k = "inf"  -> IF n = 0 THEN NaN ELSE Inf(Xor(f.s, SignBit(n)))
      [] f.k = "zero" -> Zero(Xor(f.s, SignBit(n)))
      [] f.k = "fin"  -> IF n = 0 THEN Zero(f.s)
                         ELSE MakeFloat(Xor(f.s, SignBit(n)), MulSmall(f.m, Abs(n)), 1, f.e)

\* float64 / int64: the integer is converted to float64, the quotient is
\* rounded to nearest; division by zero gives +-inf or NaN
FDivInt(f, n) ==
    CASE f.k = "nan"  -> NaN
      [] f.k = "inf"  -> Inf(Xor(f.s, SignBit(n)))
      [] f.k = "zero" -> IF n = 0 THEN NaN ELSE Zero(Xor(f.s, SignBit(n)))
      [] f.k = "fin"  -> IF n = 0 THEN Inf(f.s)
                         ELSE MakeFloat(Xor(f.s, SignBit(n)), f.m, Abs(n), f.e)

\* numpy rint: the nearest integral float64, ties to even; keeps the sign of
\* a result that rounds to zero
Rint(f) ==
    IF f.k # "fin" \/ f.e >= 0 THEN f
    ELSE LET fb == -f.e
         IN  IF fb > MantBits THEN Zero(f.s)
             ELSE LET ip == SubSeq(f.m, 1, MantBits - fb)
                      rb == f.m[MantBits - fb + 1]
                      st == \E i \in (MantBits - fb + 2)..MantBits : f.m[i] = 1
                      od == ip # << >> /\ ip[Len(ip)] = 1
                      up == rb = 1 /\ (st \/ od)
                  IN  MakeFloat(f.s, IF up THEN AddOne(ip) ELSE ip, 1, 0)

\* magnitude comparison of two finite nonzero float64
MagLess(a, b) == a.e < b.e \/ (a.e = b.e /\ BitsLess(a.m, b.m))

\* a > b on float64: every comparison with NaN is False
FGt(a, b) ==
    CASE a.k = "nan" \/ b.k = "nan" -> FALSE
      [] a.k = "inf"  -> a.s = 0 /\ ~(b.k = "inf" /\ b.s = 0)
      [] b.k = "inf"  -> b.s = 1
      [] a.k = "zero" -> b.k = "fin" /\ b.s = 1
      [] b.k = "zero" -> a.s = 0
      [] OTHER        -> IF a.s # b.s THEN a.s = 0
                         ELSE IF a.s = 0 THEN MagLess(b, a) ELSE MagLess(a, b)

\* a < b on float64
FLt(a, b) == FGt(b, a)

\* a == b on float64: NaN equals nothing, -0.0 equals 0.0
FEq(a, b) ==
    /\ a.k # "nan" /\ b.k # "nan"
    /\ \/ a = b
       \/ a.k = "zero" /\ b.k = "zero"

FNeg(f) == IF f.k = "nan" THEN f ELSE [f EXCEPT !.s = 1 - f.s]

\* float64 + float64, rounded to nearest; the operands' exponents are at
\* most a few hundred apart here
FAdd(a, b) ==
    CASE a.k = "nan" \/ b.k = "nan" -> NaN
      [] a.k = "inf" /\ b.k = "inf" -> IF a.s = b.s THEN a ELSE NaN
      [] a.k = "inf"  -> a
      [] b.k = "inf"  -> b
      [] a.k = "zero" /\ b.k = "zero" -> Zero(IF a.s = 1 /\ b.s = 1 THEN 1 ELSE 0)
      [] a.k = "zero" -> b
      [] b.k = "zero" -> a
      [] OTHER ->
           LET lo == IF a.e <= b.e THEN a.e ELSE b.e
               x  == a.m \o Zeros(a.e - lo)
               y  == b.m \o Zeros(b.e - lo)
           IN  IF a.s = b.s THEN MakeFloat(a.s, BitsPlus(x, y), 1, lo)
               ELSE IF x = y THEN Zero(0)
               ELSE IF BitsLess(y, x) THEN MakeFloat(a.s, BitsMinus(x, y), 1, lo)
               ELSE MakeFloat(b.s, BitsMinus(y, x), 1, lo)

IsNaN(f) == f.k = "nan"

IsInf(f) == f.k = "inf"

(***************************************************************************)
(* The tables.  A table is a sequence of rows (records keyed by column     *)
(* name) together with the sequence of its column names.  An int64 cell is *)
(* an integer, a float64 cell a float64 value as above, a text cell a      *)
(* string; a missing text cell (an empty CSV field, NaN in pandas) is the  *)
(* empty string.                                                           *)
(***************************************************************************)
MaxRows == 2

Missing == ""

month_order == <<"Jan", "Feb", "Mar", "Apr", "May", "Jun",
                 "Jul", "Aug", "Sep", "Oct", "Nov", "Dec">>

InOrder(x) == \E i \in 1..Len(month_order) : month_order[i] = x

\* list.index(x): the position (from 0) of the first element equal to x
IndexOf(x) ==
    (CHOOSE i \in 1..Len(month_order) :
        month_order[i] = x /\ \A j \in 1..(i - 1) : month_order[j] # x) - 1

\* An integer cell of a column that may hold NaN
IntCell(n) == [k |-> "int", v |-> n]

RawColumns == <<"Product_ID", "Product_Name", "Month", "Units_Sold", "Price",
                "Opening_Stock">>

\* The text of a CSV row: Price is a decimal literal with two places, held
\* as its number of hundredths
TextRow(id, month, units, cents, stock) ==
    [Product_ID |-> id, Product_Name |-> "Item", Month |-> month,
     Units_Sold |-> units, Price |-> cents, Opening_Stock |-> stock]

\* read_csv on one row: the Price literal d.dd becomes the float64 nearest to
\* it (the digits as a float64, divided by 10^2).  A column of integer
\* literals only is int64 in pandas; its products and quotients have the same
\* values as the float64 ones below as long as they stay under 2^53.
ParseRow(t) ==
    [Product_ID |-> t.Product_ID, Product_Name |-> t.Product_Name,
     Month |-> t.Month, Units_Sold |-> t.Units_Sold,
     Price |-> IntTrueDiv(t.Price, 100), Opening_Stock |-> t.Opening_Stock]

read_csv(rows) == [i \in 1..Len(rows) |-> ParseRow(rows[i])]

\* the index taken from 0
Month_Num_ZeroBased(x) == IF InOrder(x) THEN IntCell(IndexOf(x)) ELSE NaN

\* an unknown label defaulted to 0
Month_Num_DefaultZero(x) == IF InOrder(x) THEN IntCell(IndexOf(x) + 1) ELSE IntCell(0)

\* lambda x: month_order.index(x) + 1 if x in month_order else np.nan
Month_Num_Of(x) == IF InOrder(x) THEN IntCell(IndexOf(x) + 1) ELSE NaN

\* the product taken with the wrong column
Total_Sales_Value_WrongColumn(r) == FMulInt(r.Price, r.Opening_Stock)

\* df['Units_Sold'] * df['Price']
Total_Sales_Value_Of(r) == FMulInt(r.Price, r.Units_Sold)

\* the difference clamped at zero
Remaining_Stock_Clamped(r) == Max(0, r.Opening_Stock - r.Units_Sold)

\* df['Opening_Stock'] - df['Units_Sold']
Remaining_Stock_Of(r) == r.Opening_Stock - r.Units_Sold

\* the rounding left out
Round2_Skipped(f) == f

\* numpy round(x, 2): multiply by 10^2, rint, divide by 10^2
Round2(f) == FDivInt(Rint(FMulInt(f, 100)), 100)

\* (df['Units_Sold'] / df['Opening_Stock'] * 100).round(2)
Stock_Turnover_Rate_Of(r) ==
    Round2(FMulInt(IntTrueDiv(r.Units_Sold, r.Opening_Stock), 100))

\* the quotient taken with the wrong column
Revenue_Per_Unit_WrongColumn(r) == FDivInt(FMulInt(r.Price, r.Units_Sold), r.Opening_Stock)

\* the quotient with the undefined results filled with 0
Revenue_Per_Unit_ZeroFilled(r) ==
    IF r.Units_Sold = 0 THEN Zero(0)
    ELSE FDivInt(FMulInt(r.Price, r.Units_Sold), r.Units_Sold)

\* the quotient by the magnitude of the count sold
Revenue_Per_Unit_AbsUnits(r) == FDivInt(FMulInt(r.Price, r.Units_Sold), Abs(r.Units_Sold))

\* df['Total_Sales_Value'] / df['Units_Sold']
Revenue_Per_Unit_Of(r) == FDivInt(Total_Sales_Value_Of(r), r.Units_Sold)

\* pd.Categorical(df['Month'], categories=[m for m in month_order if m in
\* df['Month'].unique()]): a label that is no category becomes NaN
Categorical(x, table) ==
    IF InOrder(x) /\ \E i \in 1..Len(table) : table[i].Month = x
    THEN x ELSE Missing

DerivedColumns == <<"Total_Sales_Value", "Month_Num", "Remaining_Stock",
                    "Stock_Turnover_Rate", "Revenue_Per_Unit">>

\* every assigned column appended, whether the table has one of that name
\* or not
AssignColumns_Appending(cols, names) == cols \o names

\* df[name] = ... for each name in turn: a column the table already has is
\* overwritten where it stands, a new one is appended
AssignColumns(cols, names) ==
    cols \o SelectSeq(names, LAMBDA n : \A j \in 1..Len(cols) : cols[j] # n)

\* Month_Num taken from the codes of the categorical: the rank of the label
\* among the labels present in the table
EnrichRow_CategoryCodes(r, table) ==
    [Product_ID |-> r.Product_ID, Product_Name |-> r.Product_Name,
     Month |-> Categorical(r.Month, table),
     Units_Sold |-> r.Units_Sold, Price |-> r.Price,
     Opening_Stock |-> r.Opening_Stock,
     Total_Sales_Value |-> Total_Sales_Value_Of(r),
     Month_Num |->
         IF InOrder(r.Month)
         THEN IntCell(Cardinality({j \in 1..(IndexOf(r.Month) + 1) :
                  \E i \in 1..Len(table) : table[i].Month = month_order[j]}))
         ELSE NaN,
     Remaining_Stock |-> Remaining_Stock_Of(r),
     Stock_Turnover_Rate |-> Stock_Turnover_Rate_Of(r),
     Revenue_Per_Unit |-> Revenue_Per_Unit_Of(r)]

\* One row of the table add_calculated_columns leaves behind
EnrichRow(r, table) ==
    [Product_ID |-> r.Product_ID, Product_Name |-> r.Product_Name,
     Month |-> Categorical(r.Month, table),
     Units_Sold |-> r.Units_Sold, Price |-> r.Price,
     Opening_Stock |-> r.Opening_Stock,
     Total_Sales_Value |-> Total_Sales_Value_Of(r),
     Month_Num |-> Month_Num_Of(r.Month),
     Remaining_Stock |-> Remaining_Stock_Of(r),
     Stock_Turnover_Rate |-> Stock_Turnover_Rate_Of(r),
     Revenue_Per_Unit |-> Revenue_Per_Unit_Of(r)]

\* the rows with an undefined derived value dropped (a dropna() at the end)
Enrich_DropNa(table) ==
    SelectSeq([i \in 1..Len(table) |-> EnrichRow(table[i], table)],
              LAMBDA r : ~IsNaN(r.Month_Num) /\ ~IsNaN(r.Stock_Turnover_Rate)
                         /\ ~IsNaN(r.Revenue_Per_Unit))

\* The rows after add_calculated_columns: column assignments are row-wise
\* and keep the index
Enrich(table) == [i \in 1..Len(table) |-> EnrichRow(table[i], table)]

Hundred == FromInt(100)

\* df.isnull().sum().sum() on a raw table: only text cells can be empty here
MissingCount(table) == Cardinality({i \in 1..Len(table) : table[i].Month = Missing})

\* df.duplicated().sum(): rows equal to an earlier row
DuplicateCount(table) ==
    Cardinality({i \in 1..Len(table) : \E j \in 1..(i - 1) : table[j] = table[i]})

\* the test made on the first record only (df[col].iloc[0] < 0)
AnyNegative_FirstRecord(table, col) == table[1][col] < 0

\* (df[col] < 0).any() on an int64 column
AnyNegative(table, col) == \E i \in 1..Len(table) : table[i][col] < 0

\* (df[col] < 0).any() on a float64 column
AnyNegativeFloat(table, col) == \E i \in 1..Len(table) : FLt(table[i][col], Zero(0))

\* the rate compared as a ratio, not a percentage
HighTurnover_Ratio(table) ==
    {i \in 1..Len(table) : FGt(table[i].Stock_Turnover_Rate, FromInt(1))}

\* df[df['Stock_Turnover_Rate'] > 100]
HighTurnover(table) ==
    {i \in 1..Len(table) : FGt(table[i].Stock_Turnover_Rate, Hundred)}

\* the three checks chained (if / elif / elif): the first finding only
Issues_FirstOnly(table) ==
    IF AnyNegative(table, "Units_Sold") THEN <<"Negative units sold detected">>
    ELSE IF AnyNegativeFloat(table, "Price") THEN <<"Negative prices detected">>
    ELSE IF AnyNegative(table, "Opening_Stock") THEN <<"Negative opening stock detected">>
    ELSE << >>

\* The list validate_data returns
Issues(table) ==
    (IF AnyNegative(table, "Units_Sold") THEN <<"Negative units sold detected">> ELSE << >>)
    \o (IF AnyNegativeFloat(table, "Price") THEN <<"Negative prices detected">> ELSE << >>)
    \o (IF AnyNegative(table, "Opening_Stock") THEN <<"Negative opening stock detected">> ELSE << >>)

column_order == <<"Product_ID", "Product_Name", "Month", "Month_Num",
                  "Units_Sold", "Price", "Opening_Stock",
                  "Total_Sales_Value", "Revenue_Per_Unit",
                  "Remaining_Stock", "Stock_Turnover_Rate">>

\* the listed columns, rows in reverse index order
SelectColumns_Reversed(table, cols) ==
    [i \in 1..Len(table) |->
        [c \in {cols[j] : j \in 1..Len(cols)} |-> table[Len(table) + 1 - i][c]]]

\* df[column_order]: the listed columns of every row, rows in index order
SelectColumns(table, cols) ==
    [i \in 1..Len(table) |-> [c \in {cols[j] : j \in 1..Len(cols)} |-> table[i][c]]]

\* the file written with the index as a first, unnamed column
to_csv_WithIndex(table, cols) ==
    [header |-> <<"">> \o cols,
     rows   |-> [i \in 1..Len(table) |->
                   [c \in DOMAIN table[i] \cup {""} |->
                       IF c = "" THEN i - 1 ELSE table[i][c]]]]

\* df.to_csv(OUTPUT_PATH, index=False): a header row of the column names,
\* then the rows, no index column
to_csv(table, cols) == [header |-> cols, rows |-> table]

\* The paths of the three files, relative to the repository
INPUT_PATH == "dataset/sales_data.csv"

\* the processed table written over the input file
OUTPUT_PATH_OverInput == "dataset/sales_data.csv"

OUTPUT_PATH == "dataset/updated_dataset.csv"

REPORT_PATH == "output/preprocessing_report.txt"

\* the content of the file at path `at`, holding `old`, once `content` has
\* been written to path `to`
AfterWrite(at, old, to, content) == IF to = at THEN content ELSE old

(***************************************************************************)
(* The state of a run of main().                                           *)
(***************************************************************************)
VARIABLES
    inputExists,    \* whether dataset/sales_data.csv exists
    inputRows,      \* the rows of dataset/sales_data.csv, as text
    pc,             \* the position of main()
    df,             \* the table main() holds
    columns,        \* the column names of df, in order
    missing_before, \* the count inspect_data returned
    issues,         \* the list validate_data returned
    warnings,       \* the turnover warnings validate_data printed
    report,         \* output/preprocessing_report.txt: << >> or <<its fields>>
    output,         \* dataset/updated_dataset.csv: << >> or <<its table>>
    passed,         \* the table object main() handed to add_calculated_columns,
                    \* as it is once the call has returned: << >> or <<it>>
    analysis        \* the run of numpy/statistical_analysis.py: its position,
                    \* its df, stats and remaining, and the file it writes

vars == <<inputExists, inputRows, pc, df, columns, missing_before, issues,
          warnings, report, output, passed, analysis>>

\* The rows the pipeline is run on: the example of the specification, a
\* zero opening stock, an unknown month with no sale, a negative count sold
\* with a fractional price, a turnover above 100% with a missing month, a
\* negative price and stock, a record that is negative throughout, a
\* negative price alone and a negative stock alone
PipelineRows ==
    { TextRow("P001", "Jan", 50, 2000, 200),
      TextRow("P002", "Feb", 10, 10, 0),
      TextRow("P003", "Foo", 0, 1999, 160),
      TextRow("P004", "Dec", -5, 1999, 160),
      TextRow("P005", Missing, 161, 500, 160),
      TextRow("P006", "Jun", 3, -150, -4),
      TextRow("P007", "Mar", -5, -150, -4),
      TextRow("P008", "Apr", 3, -150, 7),
      TextRow("P009", "May", 3, 500, -4) }

\* the tables of 1 to n records drawn from S
TablesOf(S, n) == UNION {[1..l -> S] : l \in 1..n}

Start ==
    /\ pc = "start"
    /\ df = << >>
    /\ columns = << >>
    /\ missing_before = 0
    /\ issues = << >>
    /\ warnings = << >>
    /\ report = << >>
    /\ output = << >>
    /\ passed = << >>
    /\ analysis = [pc |-> "idle", df |-> << >>, stats |-> << >>,
                   remaining |-> << >>, file |-> << >>]

Init ==
    /\ inputExists \in BOOLEAN
    /\ inputRows \in (IF inputExists THEN TablesOf(PipelineRows, MaxRows) ELSE {<< >>})
    /\ Start

\* Step 1: pd.read_csv(INPUT_PATH) on an existing file
load_raw_data ==
    /\ pc = "start"
    /\ inputExists
    /\ df' = read_csv(inputRows)
    /\ columns' = RawColumns
    /\ pc' = "loaded"
    /\ UNCHANGED <<inputExists, inputRows, missing_before, issues, warnings,
                   report, output, passed,
                   analysis>>

\* Step 1 on a missing file, the error caught and the run carried on with
\* an empty table
load_raw_data_CarriesOn ==
    /\ pc = "start"
    /\ ~inputExists
    /\ df' = << >>
    /\ columns' = RawColumns
    /\ pc' = "loaded"
    /\ UNCHANGED <<inputExists, inputRows, missing_before, issues, warnings,
                   report, output, passed,
                   analysis>>

\* Step 1 on a missing file: read_csv raises FileNotFoundError, nothing in
\* main() catches it
load_raw_data_raises ==
    /\ pc = "start"
    /\ ~inputExists
    /\ pc' = "failed"
    /\ UNCHANGED <<inputExists, inputRows, df, columns, missing_before, issues,
                   warnings, report, output, passed,
                   analysis>>

\* Step 2: inspect_data prints and returns the null counts
inspect_data ==
    /\ pc = "loaded"
    /\ missing_before' = MissingCount(df)
    /\ pc' = "inspected"
    /\ UNCHANGED <<inputExists, inputRows, df, columns, issues, warnings,
                   report, output, passed,
                   analysis>>

\* Step 3 on a copy: the columns are assigned to df.copy(), the object
\* handed in is left as it was
add_calculated_columns_OnCopy ==
    /\ pc = "inspected"
    /\ df' = Enrich(df)
    /\ columns' = AssignColumns(columns, DerivedColumns)
    /\ passed' = <<[columns |-> columns, rows |-> df]>>
    /\ pc' = "derived"
    /\ UNCHANGED <<inputExists, inputRows, missing_before, issues, warnings,
                   report, output,
                   analysis>>

\* Step 3: add_calculated_columns assigns the five columns to the df it was
\* handed (df[...] = ...), replaces its Month by the categorical and returns
\* that same object, which main() binds to df again
add_calculated_columns ==
    /\ pc = "inspected"
    /\ df' = Enrich(df)
    /\ columns' = AssignColumns(columns, DerivedColumns)
    /\ passed' = <<[columns |-> AssignColumns(columns, DerivedColumns),
                   rows |-> Enrich(df)]>>
    /\ pc' = "derived"
    /\ UNCHANGED <<inputExists, inputRows, missing_before, issues, warnings,
                   report, output,
                   analysis>>

\* Step 4 raising on a finding
validate_data_Fatal ==
    /\ pc = "derived"
    /\ issues' = Issues(df)
    /\ warnings' = << >>
    /\ pc' = IF Issues(df) # << >> \/ HighTurnover(df) # {}
             THEN "failed" ELSE "validated"
    /\ UNCHANGED <<inputExists, inputRows, df, columns, missing_before, report,
                   output, passed,
                   analysis>>

\* Step 4: validate_data collects the negative-value issues, prints the
\* turnover warning and returns the issues
validate_data ==
    /\ pc = "derived"
    /\ issues' = Issues(df)
    /\ warnings' = IF HighTurnover(df) # {}
                   THEN <<[tag |-> "turnover-exceeds-100-percent",
                           count |-> Cardinality(HighTurnover(df))]>>
                   ELSE << >>
    /\ pc' = "validated"
    /\ UNCHANGED <<inputExists, inputRows, df, columns, missing_before, report,
                   output, passed,
                   analysis>>

\* the record count taken after duplicates are dropped
ReportOf_WithoutDuplicates(table, cols, missing, found) ==
    [Records_Processed |-> Len(table) - DuplicateCount(table),
     Original_Columns  |-> Len(cols) - 5,
     Missing_Values    |-> missing,
     Duplicate_Rows    |-> DuplicateCount(table),
     Validation_Issues |-> Len(found),
     Final_Records     |-> Len(table),
     Final_Columns     |-> Len(cols),
     Completed         |-> TRUE]

\* The figures generate_report writes between the fixed lines of the report
ReportOf(table, cols, missing, found) ==
    [Records_Processed |-> Len(table),
     Original_Columns  |-> Len(cols) - 5,
     Missing_Values    |-> missing,
     Duplicate_Rows    |-> DuplicateCount(table),
     Validation_Issues |-> Len(found),
     Final_Records     |-> Len(table),
     Final_Columns     |-> Len(cols),
     Completed         |-> TRUE]

\* Step 5: generate_report writes the report file
generate_report ==
    /\ pc = "validated"
    /\ report' = <<ReportOf(df, columns, missing_before, issues)>>
    /\ inputRows' = AfterWrite(INPUT_PATH, inputRows, REPORT_PATH, report')
    /\ pc' = "reported"
    /\ UNCHANGED <<inputExists, df, columns, missing_before, issues,
                   warnings, output, passed,
                   analysis>>

\* Step 6: save_processed_data builds a new table of the listed columns
\* (df = df[column_order]), writes it without the index and returns it
save_processed_data ==
    /\ pc = "reported"
    /\ df' = SelectColumns(df, column_order)
    /\ columns' = column_order
    /\ output' = <<to_csv(SelectColumns(df, column_order), column_order)>>
    /\ inputRows' = AfterWrite(INPUT_PATH, inputRows, OUTPUT_PATH,
                               SelectColumns(df, column_order))
    /\ pc' = "done"
    /\ UNCHANGED <<inputExists, missing_before, issues, warnings,
                   report, passed,
                   analysis>>

Next ==
    \/ load_raw_data
    \/ load_raw_data_raises
    \/ inspect_data
    \/ add_calculated_columns
    \/ validate_data
    \/ generate_report
    \/ save_processed_data

Spec == Init /\ [][Next]_vars

Positions == {"start", "loaded", "inspected", "derived", "validated",
              "reported", "done", "failed"}

\* main() moving on from a position that is not its end
Advance == pc \notin {"done", "failed"} /\ pc' \in Positions \ {pc}

\* main() is straight-line code: it does not stop before its end, the
\* statement after the current one is executed
FairSpec == Spec /\ WF_pc(Advance)

(***************************************************************************)
(* numpy/statistical_analysis.py, run on dataset/updated_dataset.csv       *)
(* before or after the preprocessing pipeline (not while it runs).  The    *)
(* file it reads is the one save_processed_data writes; a value written by *)
(* to_csv is read back unchanged.  Of the statistics, the medians, the     *)
(* standard deviations and the figures of Price are left out.              *)
(***************************************************************************)
MaxOf(S) == CHOOSE x \in S : \A y \in S : y <= x

MinOf(S) == CHOOSE x \in S : \A y \in S : x <= y

RECURSIVE SumOf(_)
SumOf(seq) == IF seq = << >> THEN 0 ELSE seq[1] + SumOf(Tail(seq))

Column(data, col) == [i \in 1..Len(data) |-> data[i][col]]

Values(seq) == {seq[i] : i \in 1..Len(seq)}

\* the dict statistical_operations returns
stats_of(data) ==
    LET units == Column(data, "Units_Sold")
        opening_stock == Column(data, "Opening_Stock")
    IN  [Units_Sold    |-> [Maximum |-> MaxOf(Values(units)),
                            Minimum |-> MinOf(Values(units)),
                            Mean    |-> IntTrueDiv(SumOf(units), Len(units)),
                            Total   |-> SumOf(units)],
         Opening_Stock |-> [Maximum |-> MaxOf(Values(opening_stock)),
                            Minimum |-> MinOf(Values(opening_stock)),
                            Mean    |-> IntTrueDiv(SumOf(opening_stock),
                                                   Len(opening_stock))]]

\* load_data on an existing file
load_data ==
    /\ pc \in {"start", "done", "failed"}
    /\ analysis.pc = "idle"
    /\ output # << >>
    /\ analysis' = [analysis EXCEPT !.pc = "loaded", !.df = output[1].rows]
    /\ UNCHANGED <<inputExists, inputRows, pc, df, columns, missing_before,
                   issues, warnings, report, output, passed>>

\* load_data on a missing file: FileNotFoundError is caught, None returned
load_data_returns_None ==
    /\ pc \in {"start", "done", "failed"}
    /\ analysis.pc = "idle"
    /\ output = << >>
    /\ analysis' = [analysis EXCEPT !.pc = "none"]
    /\ UNCHANGED <<inputExists, inputRows, pc, df, columns, missing_before,
                   issues, warnings, report, output, passed>>

\* main() going on with an empty table in place of None
main_carries_on ==
    /\ analysis.pc = "none"
    /\ analysis' = [analysis EXCEPT !.pc = "loaded"]
    /\ UNCHANGED <<inputExists, inputRows, pc, df, columns, missing_before,
                   issues, warnings, report, output, passed>>

\* main(): if df is None: return
main_returns ==
    /\ analysis.pc = "none"
    /\ analysis' = [analysis EXCEPT !.pc = "stopped"]
    /\ UNCHANGED <<inputExists, inputRows, pc, df, columns, missing_before,
                   issues, warnings, report, output, passed>>

\* main(): stats = statistical_operations(df), printed
statistical_operations ==
    /\ analysis.pc = "loaded"
    /\ analysis' = [analysis EXCEPT !.pc = "analysed",
                                    !.stats = <<stats_of(analysis.df)>>]
    /\ UNCHANGED <<inputExists, inputRows, pc, df, columns, missing_before,
                   issues, warnings, report, output, passed>>

\* main(): remaining = calculate_remaining_stock(df), summarised
remaining_stock_summary ==
    /\ analysis.pc = "analysed"
    /\ analysis' = [analysis EXCEPT
                       !.pc = "summarised",
                       !.remaining = [i \in 1..Len(analysis.df) |->
                           analysis.df[i].Opening_Stock - analysis.df[i].Units_Sold]]
    /\ UNCHANGED <<inputExists, inputRows, pc, df, columns, missing_before,
                   issues, warnings, report, output, passed>>

\* main(): save_statistics(stats) writes output/statistical_summary.txt
save_statistics ==
    /\ analysis.pc = "summarised"
    /\ analysis' = [analysis EXCEPT !.pc = "saved", !.file = analysis.stats]
    /\ UNCHANGED <<inputExists, inputRows, pc, df, columns, missing_before,
                   issues, warnings, report, output, passed>>

NextAnalysis ==
    \/ analysis.pc = "idle" /\ Next
    \/ load_data
    \/ load_data_returns_None
    \/ main_returns
    \/ statistical_operations
    \/ remaining_stock_summary
    \/ save_statistics

SpecAnalysis == Init /\ [][NextAnalysis]_vars

(***************************************************************************)
(* regression/monthly_forecast_model.py, on the rows of                    *)
(* dataset/updated_dataset.csv.                                            *)
(***************************************************************************)
\* Series.sum() on a float64 column: NaN skipped, the values added from the
\* first to the last
RECURSIVE SeriesSumFrom(_, _, _)
SeriesSumFrom(seq, i, acc) ==
    IF i > Len(seq) THEN acc
    ELSE SeriesSumFrom(seq, i + 1, IF IsNaN(seq[i]) THEN acc ELSE FAdd(acc, seq[i]))

SeriesSum(seq) == SeriesSumFrom(seq, 1, Zero(0))

\* the sum of a group in groupby(...).agg('sum') on a float64 column: NaN
\* skipped, the values added with Kahan's compensation (sumx, comp)
RECURSIVE GroupSumFrom(_, _, _, _)
GroupSumFrom(seq, i, sumx, comp) ==
    IF i > Len(seq) THEN sumx
    ELSE IF IsNaN(seq[i]) THEN GroupSumFrom(seq, i + 1, sumx, comp)
    ELSE LET y == FAdd(seq[i], FNeg(comp))
             t == FAdd(sumx, y)
             c == FAdd(FAdd(t, FNeg(sumx)), FNeg(y))
         IN  GroupSumFrom(seq, i + 1, t, IF IsNaN(c) THEN Zero(0) ELSE c)

GroupSum(seq) == GroupSumFrom(seq, 1, Zero(0), Zero(0))

\* the keys of groupby('Month_Num'): the values of the column, NaN left out
\* (dropna=True)
GroupKeys(data) ==
    {data[i].Month_Num : i \in {j \in 1..Len(data) : ~IsNaN(data[j].Month_Num)}}

\* the rows of a group, in the order of the table
GroupRows(data, key) ==
    SelectSeq(data, LAMBDA r : r.Month_Num = key)

\* monthly_sales: one row per key, in increasing order of the key, indexed
\* from 0 by reset_index()
prepare_monthly_data(data) ==
    LET keys == GroupKeys(data)
        nth(j) == CHOOSE k \in keys :
                      Cardinality({l \in keys : l.v < k.v}) = j - 1
    IN  [j \in 1..Cardinality(keys) |->
            [Month_Num |-> nth(j).v,
             Total_Sales_Value |->
                 GroupSum(Column(GroupRows(data, nth(j)), "Total_Sales_Value")),
             Units_Sold |-> SumOf(Column(GroupRows(data, nth(j)), "Units_Sold"))]]

\* the month numbers the forecast is made for (July to December)
future_months == <<7, 8, 9, 10, 11, 12>>

\* forecast_future_months: the rows of forecast_df, without the predicted
\* values of the fitted line, and the figure printed as 'Total H1 (Jan-Jun)'
forecast_future_months(monthly_sales) ==
    [Month_Num |-> future_months,
     h1_actual |-> SeriesSum(Column(monthly_sales, "Total_Sales_Value"))]

\* the names save_forecast_report indexes by the row's position
H1_names == <<"Jan", "Feb", "Mar", "Apr", "May", "Jun">>

\* save_forecast_report, section 1: one line per row of monthly_sales, named
\* by the row's index (from 0) in the list of six names, then the total of
\* all rows; a seventh row raises IndexError after six lines were written
save_forecast_report(monthly_sales) ==
    LET n == Len(monthly_sales)
        written == IF n > Len(H1_names) THEN Len(H1_names) ELSE n
    IN  [raised     |-> IF n > Len(H1_names) THEN "IndexError" ELSE "",
         historical |-> [g \in 1..written |->
                           [Month_Num |-> monthly_sales[g].Month_Num,
                            month_name |-> H1_names[(g - 1) + 1],
                            Total_Sales_Value |-> monthly_sales[g].Total_Sales_Value]],
         Total_H1   |-> IF n > Len(H1_names) THEN << >>
                        ELSE <<SeriesSum(Column(monthly_sales, "Total_Sales_Value"))>>]

(***************************************************************************)
(* The two scripts that flag a stockout risk on the rows of                *)
(* dataset/updated_dataset.csv.                                            *)
(***************************************************************************)
\* streamlit/app.py, load_data: the three columns added to each row
app_load_data(data) ==
    [i \in 1..Len(data) |->
        LET ratio == IntTrueDiv(data[i].Units_Sold, data[i].Opening_Stock)
        IN  [Sales_to_Stock_Ratio |-> ratio,
             Stockout_Risk |-> FGt(ratio, IntTrueDiv(7, 10)),
             Stock_Efficiency |-> Round2(FMulInt(ratio, 100))]]

\* pandas/data_manipulation.py, data_transformation: the four columns added
\* to each row of a copy
data_transformation(data) ==
    [i \in 1..Len(data) |->
        LET eff == Round2(FMulInt(IntTrueDiv(data[i].Units_Sold,
                                             data[i].Opening_Stock), 100))
        IN  [Remaining_Stock |-> data[i].Opening_Stock - data[i].Units_Sold,
             Stock_Efficiency |-> eff,
             Revenue_Per_Unit |-> FDivInt(data[i].Total_Sales_Value, data[i].Units_Sold),
             Stockout_Risk |-> FGt(eff, FromInt(70))]]

(***************************************************************************)
(* The derivations on single records: the same run of main() on every      *)
(* one-row table drawn from a grid of counts sold, price literals and      *)
(* opening stocks, and on every month label.                               *)
(***************************************************************************)
UnitsValues == {-5, 0, 1, 3, 10, 23, 50, 161}

PriceCents == {2000, 10, 1999, -150}

StockValues == {-4, 0, 7, 32, 160, 200}

Labels == {month_order[i] : i \in 1..Len(month_order)} \cup {"Foo", "jan", Missing}

\* counts sold and opening stocks around a ratio of 70%
NearSeventy == {<<7, 10>>, <<8, 10>>, <<141, 200>>, <<14001, 20000>>,
                <<21001, 30000>>, <<21002, 30000>>, <<21003, 30000>>}

\* counts sold and opening stocks around a ratio of 100%
NearHundred == {<<200, 200>>, <<201, 200>>, <<30000, 30000>>, <<30001, 30000>>,
                <<30002, 30000>>, <<20001, 20000>>}

RowInputs ==
    {TextRow("P001", "Jan", u, c, o) : u \in UnitsValues, c \in PriceCents, o \in StockValues}
    \cup {TextRow("P001", l, 50, 2000, 200) : l \in Labels}
    \cup {TextRow("P001", "Jan", p[1], 2000, p[2]) : p \in NearSeventy \cup NearHundred}

InitRow ==
    /\ inputExists \in BOOLEAN
    /\ inputRows \in (IF inputExists THEN {<<t>> : t \in RowInputs} ELSE {<< >>})
    /\ Start

SpecRow == InitRow /\ [][Next]_vars

\* The states in which df holds the derived columns
Enriched == pc \in {"derived", "validated", "reported", "done"}

Rows == 1..Len(df)

(***************************************************************************)
(* Exact arithmetic for stating the properties: sums and comparisons of    *)
(* bit sequences, and "x is within half a unit in the last place of a      *)
(* rational".                                                              *)
(***************************************************************************)
Min(a, b) == IF a <= b THEN a ELSE b

RECURSIVE AddAux(_, _, _, _, _)
AddAux(a, b, i, carry, acc) ==
    IF i = 0 THEN <<carry>> \o acc
    ELSE LET t == a[i] + b[i] + carry
         IN  AddAux(a, b, i - 1, t \div Pow2(LimbBits), <<t % Pow2(LimbBits)>> \o acc)

\* a + b on bit sequences
AddBits(a, b) ==
    LET n  == Max(Len(a), Len(b))
        la == ToLimbs(Zeros(n - Len(a)) \o a)
        lb == ToLimbs(Zeros(n - Len(b)) \o b)
    IN  Strip(FromLimbs(AddAux(la, lb, Len(la), 0, << >>)))

BitsLeq(a, b) == ~BitsLess(Strip(b), Strip(a))

\* <<odd part of b, e + number of trailing zeros of b>>, for a nonzero b
Canon(b, e) ==
    LET ones == {i \in 1..Len(b) : b[i] = 1}
        l    == CHOOSE i \in ones : \A j \in ones : j <= i
    IN  <<Strip(SubSeq(b, 1, l)), e + Len(b) - l>>

\* the nonzero natural b * 2^e is a float64 (has at most 53 significant bits)
Representable(b, e) == Len(Canon(b, e)[1]) <= MantBits

\* the float64 f is within half a unit in its last place of
\* (-1)^s * (n / k) * 2^e, n a bit sequence, k > 0
NearestTo(f, s, n, k, e) ==
    IF Strip(n) = << >> THEN f.k = "zero"
    ELSE /\ f.k = "fin"
         /\ f.s = s
         /\ LET lo == Min(f.e - 1, e)
                a  == MulSmall(f.m, k) \o Zeros(f.e - lo)
                b  == Strip(n) \o Zeros(e - lo)
                h  == NatToBits(k) \o Zeros(f.e - 1 - lo)
            IN  BitsLeq(a, AddBits(b, h)) /\ BitsLeq(b, AddBits(a, h))

\* the float64 f is exactly g * n, for a finite float64 g and an integer n
ExactTimes(f, g, n) ==
    IF g.k = "fin" /\ n # 0
    THEN /\ f.k = "fin"
         /\ f.s = Xor(g.s, SignBit(n))
         /\ Canon(f.m, f.e) = Canon(MulSmall(g.m, Abs(n)), g.e)
    ELSE f.k = "zero"

\* the significand of the exact product g * n, g finite nonzero
ProductBits(g, n) == MulSmall(g.m, Abs(n))

(***************************************************************************)
(* C1.  As stated: for every record, Total_Sales_Value is exactly          *)
(* Units_Sold * Price of that record, with no rounding: exactly the        *)
(* product with the float64 Price, or (decimal arithmetic) the float64 of  *)
(* the exact decimal product with the Price literal.                       *)
(***************************************************************************)
C1_ExactProduct ==
    Enriched =>
        \A i \in Rows :
            \/ ExactTimes(df[i].Total_Sales_Value, df[i].Price, inputRows[i].Units_Sold)
            \/ df[i].Total_Sales_Value =
                   IntTrueDiv(inputRows[i].Units_Sold * inputRows[i].Price, 100)

\* C1, amended: Total_Sales_Value is the float64 nearest to Units_Sold *
\* Price of the same record (within half a unit in the last place, no
\* decimal rounding), and is exactly the product whenever the product is a
\* float64, as it is for every integer-valued Price.
C1_NearestProduct ==
    Enriched =>
        \A i \in Rows :
            LET t == df[i].Total_Sales_Value
                g == df[i].Price
                u == inputRows[i].Units_Sold
            IN  /\ g.k = "fin"
                /\ IF u = 0 THEN t.k = "zero"
                   ELSE /\ NearestTo(t, Xor(g.s, SignBit(u)), ProductBits(g, u), 1, g.e)
                        /\ Representable(ProductBits(g, u), g.e) => ExactTimes(t, g, u)
                        /\ inputRows[i].Price % 100 = 0 => ExactTimes(t, g, u)

\* a record with a fractional price whose product is not a float64 has been
\* enriched
C1_Witness ==
    /\ Enriched
    /\ \E i \in Rows :
          /\ inputRows[i].Units_Sold = 3
          /\ inputRows[i].Price = 10
          /\ ~ExactTimes(df[i].Total_Sales_Value, df[i].Price, 3)
          /\ df[i].Total_Sales_Value # IntTrueDiv(30, 100)
          /\ NearestTo(df[i].Total_Sales_Value, 0, ProductBits(df[i].Price, 3), 1, df[i].Price.e)

(***************************************************************************)
(* The scripts that recompute Remaining_Stock from the processed table.    *)
(***************************************************************************)
\* numpy/statistical_analysis.py: stock - demand
calculate_remaining_stock(data) ==
    [i \in 1..Len(data) |-> data[i].Opening_Stock - data[i].Units_Sold]

\* pandas/adding_new_column.py: df["Remaining_Stock"] = ...
adding_new_column(data) ==
    [i \in 1..Len(data) |->
        [data[i] EXCEPT !.Remaining_Stock = data[i].Opening_Stock - data[i].Units_Sold]]

\* C2.  For every record Remaining_Stock = Opening_Stock - Units_Sold, and it
\* is negative (not clamped to 0) whenever Units_Sold > Opening_Stock; the
\* two scripts that recompute it from the processed table agree.
C2_RemainingStock ==
    Enriched =>
        \A i \in Rows :
            LET u == inputRows[i].Units_Sold
                o == inputRows[i].Opening_Stock
            IN  /\ df[i].Remaining_Stock + u = o
                /\ u > o => df[i].Remaining_Stock < 0
                /\ pc = "done" =>
                      /\ calculate_remaining_stock(output[1].rows)[i] + u = o
                      /\ adding_new_column(output[1].rows)[i].Remaining_Stock + u = o

\* a record that sold more than its opening stock has a negative remainder
C2_Witness ==
    /\ pc = "done"
    /\ \E i \in Rows :
          /\ inputRows[i].Units_Sold = 161
          /\ inputRows[i].Opening_Stock = 160
          /\ output[1].rows[i].Remaining_Stock = -1

\* C3.  For every record with Opening_Stock > 0, Stock_Turnover_Rate is
\* Units_Sold / Opening_Stock * 100 rounded to 2 decimal places: the float64
\* of h/100 for an integer h within 1/2 of 10000 * Units_Sold / Opening_Stock;
\* Units_Sold = 50 and Opening_Stock = 200 give 25.00.
C3_TurnoverRate ==
    Enriched =>
        \A i \in Rows :
            LET u == inputRows[i].Units_Sold
                o == inputRows[i].Opening_Stock
                q == (10000 * u) \div o
            IN  o > 0 =>
                  /\ \E h \in {q, q + 1} :
                        /\ 2 * Abs(o * h - 10000 * u) <= o
                        /\ df[i].Stock_Turnover_Rate = IntTrueDiv(h, 100)
                  /\ (u = 50 /\ o = 200) => df[i].Stock_Turnover_Rate = FromInt(25)

\* a record whose ratio is not a multiple of 0.01 (23/160 = 14.375%) has
\* been enriched, and its rate is 14.37
C3_Witness ==
    /\ Enriched
    /\ \E i \in Rows :
          /\ inputRows[i].Units_Sold = 23
          /\ inputRows[i].Opening_Stock = 160
          /\ df[i].Stock_Turnover_Rate = IntTrueDiv(1437, 100)

\* C4.  As stated: for every record with Opening_Stock = 0 the
\* Stock_Turnover_Rate is the not-computable marker (NaN), never zero, a
\* number or an infinity.
C4_TurnoverNotComputable ==
    Enriched =>
        \A i \in Rows :
            inputRows[i].Opening_Stock = 0 => IsNaN(df[i].Stock_Turnover_Rate)

\* C5.  As stated: for every record with Units_Sold > 0, Revenue_Per_Unit is
\* Total_Sales_Value / Units_Sold, which equals the record's Price.
C5_RevenueEqualsPrice ==
    Enriched =>
        \A i \in Rows :
            LET t == df[i].Total_Sales_Value
                u == inputRows[i].Units_Sold
            IN  u > 0 =>
                  /\ NearestTo(df[i].Revenue_Per_Unit, t.s, t.m, u, t.e)
                  /\ FEq(df[i].Revenue_Per_Unit, df[i].Price)

\* C5, amended: for every record with Units_Sold > 0, Revenue_Per_Unit is the
\* float64 nearest to Total_Sales_Value / Units_Sold; it equals Price
\* whenever Units_Sold * Price is a float64 (as for every integer-valued
\* Price), and may otherwise differ from Price in the last place.
C5_RevenueQuotient ==
    Enriched =>
        \A i \in Rows :
            LET t == df[i].Total_Sales_Value
                g == df[i].Price
                u == inputRows[i].Units_Sold
            IN  u > 0 =>
                  /\ NearestTo(df[i].Revenue_Per_Unit, t.s, t.m, u, t.e)
                  /\ Representable(ProductBits(g, u), g.e) => df[i].Revenue_Per_Unit = g
                  /\ inputRows[i].Price % 100 = 0 => df[i].Revenue_Per_Unit = g

\* a record whose revenue per unit differs from its price (3 units at 0.10)
\* has been enriched
C5_Witness ==
    /\ Enriched
    /\ \E i \in Rows :
          /\ inputRows[i].Units_Sold = 3
          /\ inputRows[i].Price = 10
          /\ ~FEq(df[i].Revenue_Per_Unit, df[i].Price)

\* C6.  For every record with Units_Sold = 0, Revenue_Per_Unit is the
\* not-computable marker (NaN): the derivation goes through and the result
\* is neither zero nor any other number, in the table and in the file.
C6_RevenueNotComputable ==
    Enriched =>
        \A i \in Rows :
            inputRows[i].Units_Sold = 0 =>
                /\ IsNaN(df[i].Revenue_Per_Unit)
                /\ pc = "done" => IsNaN(output[1].rows[i].Revenue_Per_Unit)

\* a record with no unit sold has been enriched and saved
C6_Witness ==
    /\ pc = "done"
    /\ \E i \in Rows :
          /\ inputRows[i].Units_Sold = 0
          /\ output[1].rows[i].Revenue_Per_Unit = NaN

\* The twelve labels, in calendar order
Calendar == <<"Jan", "Feb", "Mar", "Apr", "May", "Jun",
              "Jul", "Aug", "Sep", "Oct", "Nov", "Dec">>

CalendarSet == {Calendar[j] : j \in 1..Len(Calendar)}

\* C7.  The month-index derivation maps Jan, Feb, ..., Dec to 1, 2, ..., 12:
\* it is injective on the twelve labels and onto 1..12, and every enriched
\* record carries the index of its own label.
C7_MonthIndex ==
    /\ \A j \in 1..Len(Calendar) : Month_Num_Of(Calendar[j]) = IntCell(j)
    /\ \A a, b \in CalendarSet : Month_Num_Of(a) = Month_Num_Of(b) => a = b
    /\ \A n \in 1..Len(Calendar) : \E a \in CalendarSet : Month_Num_Of(a) = IntCell(n)
    /\ Enriched =>
          \A i \in Rows : \A j \in 1..Len(Calendar) :
              inputRows[i].Month = Calendar[j] => df[i].Month_Num = IntCell(j)

\* a December record has been enriched
C7_Witness ==
    /\ Enriched
    /\ \E i \in Rows : inputRows[i].Month = "Dec" /\ df[i].Month_Num = IntCell(12)

\* C8.  For a record whose Month label is none of the twelve, Month_Num is
\* the missing marker (NaN), never 0 nor an index in 1..12, and the record is
\* still in the enriched table and in the file.
C8_UnknownMonth ==
    Enriched =>
        /\ Len(df) = Len(inputRows)
        /\ \A i \in Rows :
              inputRows[i].Month \notin CalendarSet =>
                  /\ IsNaN(df[i].Month_Num)
                  /\ df[i].Month_Num \notin {IntCell(n) : n \in 0..Len(Calendar)}
                  /\ df[i].Product_ID = inputRows[i].Product_ID
                  /\ pc = "done" =>
                        /\ i \in 1..Len(output[1].rows)
                        /\ output[1].rows[i].Product_ID = inputRows[i].Product_ID
                        /\ IsNaN(output[1].rows[i].Month_Num)

\* a record with an unknown label has been enriched and saved
C8_Witness ==
    /\ pc = "done"
    /\ \E i \in Rows :
          /\ inputRows[i].Month = "Foo"
          /\ output[1].rows[i].Month_Num = NaN

\* the enriched or saved record e is the enrichment of the input record t
EnrichmentOf(e, t) ==
    /\ e.Product_ID = t.Product_ID
    /\ e.Product_Name = t.Product_Name
    /\ e.Units_Sold = t.Units_Sold
    /\ e.Opening_Stock = t.Opening_Stock
    /\ e.Price = IntTrueDiv(t.Price, 100)
    /\ e.Remaining_Stock = t.Opening_Stock - t.Units_Sold
    /\ \A j \in 1..Len(Calendar) : t.Month = Calendar[j] => e.Month_Num = IntCell(j)
    /\ t.Month \notin CalendarSet => IsNaN(e.Month_Num)

\* C9.  The enriched table, and the table save_processed_data writes, hold
\* the records in the input order: the i-th record is the enrichment of the
\* i-th input record, for every i.
C9_OrderPreserved ==
    /\ Enriched =>
          /\ Len(df) = Len(inputRows)
          /\ \A i \in 1..Len(inputRows) : EnrichmentOf(df[i], inputRows[i])
    /\ pc = "done" =>
          /\ Len(output[1].rows) = Len(inputRows)
          /\ \A i \in 1..Len(inputRows) : EnrichmentOf(output[1].rows[i], inputRows[i])

\* two different records have been saved, in the order of the input
C9_Witness ==
    /\ pc = "done"
    /\ Len(inputRows) >= 2
    /\ inputRows[1].Product_ID = "P004"
    /\ inputRows[2].Product_ID = "P001"
    /\ output[1].rows[1].Product_ID = "P004"
    /\ output[1].rows[2].Product_ID = "P001"

\* C10.  Every run that loads its input keeps one record per input record at
\* every step and writes as many records as it read, whatever the findings
\* and the values (negative, zero, unknown month) of the records; such a run
\* never fails.
C10_Completeness ==
    /\ pc \notin {"start", "failed"} => Len(df) = Len(inputRows)
    /\ pc = "done" => Len(output) = 1 /\ Len(output[1].rows) = Len(inputRows)
    /\ inputExists => pc # "failed"

\* a table with a negative count sold and an unknown month with no sale has
\* raised findings and has been written in full
C10_Witness ==
    /\ pc = "done"
    /\ Len(inputRows) >= 2
    /\ inputRows[1].Product_ID = "P004"
    /\ inputRows[2].Product_ID = "P003"
    /\ issues # << >>
    /\ IsNaN(output[1].rows[2].Month_Num)
    /\ Len(output[1].rows) = Len(inputRows)

\* the findings a run can raise in validate_data
NegativeMessages == {"Negative units sold detected", "Negative prices detected",
                     "Negative opening stock detected"}

Range(seq) == {seq[k] : k \in 1..Len(seq)}

\* the run has written the report and the processed file
Finished == pc = "done" /\ Len(report) = 1 /\ Len(output) = 1

\* C11.  Validation findings are never fatal: whatever the table handed to
\* validate_data holds (any combination of negative units, prices, stocks
\* and turnover rates above 100), validate_data returns, and the run goes on
\* to write the report and the processed file.
C11_FindingsNeverFatal ==
    /\ (pc = "derived") ~> (pc = "validated")
    /\ (pc = "validated") ~> Finished

\* a run with all four findings has written the report and the file
C11_Witness ==
    /\ Finished
    /\ Range(issues) = NegativeMessages
    /\ warnings # << >>
    /\ report[1].Validation_Issues = 3
    /\ Len(output[1].rows) = Len(inputRows)

\* validate_data has returned
Validated == pc \in {"validated", "reported", "done"}

\* some record of the input file has a negative value in column col
SomeNegative(col) == \E i \in 1..Len(inputRows) : inputRows[i][col] < 0

\* C12.  The findings validate_data returns contain the negative-units
\* finding if and only if some record has Units_Sold < 0, the negative-price
\* finding iff some record has Price < 0, and the negative-stock finding iff
\* some record has Opening_Stock < 0, each whatever the other two columns
\* hold.
C12_NegativeFindings ==
    Validated =>
        /\ "Negative units sold detected" \in Range(issues) <=> SomeNegative("Units_Sold")
        /\ "Negative prices detected" \in Range(issues) <=> SomeNegative("Price")
        /\ "Negative opening stock detected" \in Range(issues)
               <=> SomeNegative("Opening_Stock")

\* a table whose negative values are a price in one record and a stock in
\* another has been validated: two findings, and none on the units
C12_Witness ==
    /\ Validated
    /\ Len(inputRows) >= 2
    /\ inputRows[1].Price < 0 /\ inputRows[1].Opening_Stock >= 0
    /\ inputRows[2].Opening_Stock < 0 /\ inputRows[2].Price >= 0
    /\ ~SomeNegative("Units_Sold")
    /\ issues = <<"Negative prices detected", "Negative opening stock detected">>

\* Units_Sold / Opening_Stock * 100, rounded to a multiple of 0.01, is above
\* 100: the quotient is above 1.00005, or the division by zero of a positive
\* count gives +infinity
ExceedsHundred(u, o) ==
    \/ o > 0 /\ 20000 * u > 20001 * o
    \/ o < 0 /\ 20000 * u < 20001 * o
    \/ o = 0 /\ u > 0

\* the records of the input file whose turnover rate is above 100
Exceeding ==
    {i \in 1..Len(inputRows) :
        ExceedsHundred(inputRows[i].Units_Sold, inputRows[i].Opening_Stock)}

\* C13.  As stated: whenever some record has Stock_Turnover_Rate > 100, the
\* validation pass reports a turnover finding with the count of such
\* records, and that finding is an element of the list validate_data
\* returns, next to the negative-value findings.
C13_TurnoverReturned ==
    (Validated /\ Exceeding # {}) =>
        /\ warnings = <<[tag |-> "turnover-exceeds-100-percent",
                         count |-> Cardinality(Exceeding)]>>
        /\ \E k \in 1..Len(issues) : issues[k] \notin NegativeMessages

\* C13, amended: whenever some record has Stock_Turnover_Rate > 100,
\* validate_data prints one warning with the count of such records, and
\* prints none otherwise; the warning is not an element of the list
\* validate_data returns, which holds negative-value findings only, and the
\* report counts the returned findings only.
C13_TurnoverPrinted ==
    Validated =>
        /\ Exceeding # {} =>
              warnings = <<[tag |-> "turnover-exceeds-100-percent",
                            count |-> Cardinality(Exceeding)]>>
        /\ Exceeding = {} => warnings = << >>
        /\ Range(issues) \subseteq NegativeMessages
        /\ pc \in {"reported", "done"} => report[1].Validation_Issues = Len(issues)

\* a table of two records above 100% and no negative value has been
\* validated and reported: a warning counting 2, an empty list of findings
C13_Witness ==
    /\ pc \in {"reported", "done"}
    /\ Cardinality(Exceeding) = 2
    /\ warnings = <<[tag |-> "turnover-exceeds-100-percent", count |-> 2]>>
    /\ issues = << >>
    /\ report[1].Validation_Issues = 0

\* the warning validate_data prints for a count n of records
TurnoverWarning(n) ==
    IF n = 0 THEN << >>
    ELSE <<[tag |-> "turnover-exceeds-100-percent", count |-> n]>>

\* C14.  As stated: a record with Opening_Stock = 0 and Units_Sold = 10 gets
\* Remaining_Stock = -10 and a not-computable (NaN) turnover rate, and the
\* turnover check does not count it: the warning counts the records above
\* 100 that have a stock other than zero.
C14_ZeroStockNotCounted ==
    Validated =>
        /\ \A i \in Rows :
              (inputRows[i].Opening_Stock = 0 /\ inputRows[i].Units_Sold = 10) =>
                  /\ df[i].Remaining_Stock = -10
                  /\ IsNaN(df[i].Stock_Turnover_Rate)
        /\ (\E i \in Rows : inputRows[i].Opening_Stock = 0 /\ inputRows[i].Units_Sold = 10) =>
              warnings = TurnoverWarning(Cardinality(
                  {i \in Exceeding : inputRows[i].Opening_Stock # 0}))

\* the records of the input file with a negative count sold
NegativeUnits == {i \in 1..Len(inputRows) : inputRows[i].Units_Sold < 0}

\* exactly one record of the input file has a negative count sold, and its
\* count is -5
OneMinusFive ==
    /\ Cardinality(NegativeUnits) = 1
    /\ \A i \in NegativeUnits : inputRows[i].Units_Sold = -5

\* the enriched record e carries the values the derivations give for the
\* input record t (a zero Opening_Stock left aside)
DerivedByFormulas(e, t) ==
    LET u  == t.Units_Sold
        o  == t.Opening_Stock
        g  == e.Price
        v  == e.Total_Sales_Value
        uu == IF o < 0 THEN -u ELSE u
        q  == (10000 * uu) \div Abs(o)
    IN  /\ g = IntTrueDiv(t.Price, 100)
        /\ e.Remaining_Stock + u = o
        /\ \A j \in 1..Len(Calendar) : t.Month = Calendar[j] => e.Month_Num = IntCell(j)
        /\ t.Month \notin CalendarSet => IsNaN(e.Month_Num)
        /\ IF u = 0 \/ g.k = "zero" THEN v.k = "zero"
           ELSE NearestTo(v, Xor(g.s, SignBit(u)), ProductBits(g, u), 1, g.e)
        /\ o # 0 =>
              \E h \in {q, q + 1} :
                  /\ 2 * Abs(Abs(o) * h - 10000 * uu) <= Abs(o)
                  /\ e.Stock_Turnover_Rate = IntTrueDiv(h, 100)
        /\ IF u = 0 THEN IsNaN(e.Revenue_Per_Unit)
           ELSE IF v.k = "zero" THEN e.Revenue_Per_Unit.k = "zero"
           ELSE NearestTo(e.Revenue_Per_Unit, Xor(v.s, SignBit(u)), v.m, Abs(u), v.e)

\* C15.  As stated: for a table in which exactly one record has Units_Sold =
\* -5, validate_data produces a negative-units finding that carries the
\* count 1 of affected records (so the findings of the table differ from
\* those of the table with every record twice, whose count is 2), and the
\* record's derived fields are computed by the formulas of every record.
C15_CountedFinding ==
    (Validated /\ OneMinusFive) =>
        /\ "Negative units sold detected" \in Range(issues)
        /\ issues # Issues(df \o df)
        /\ \A i \in NegativeUnits : DerivedByFormulas(df[i], inputRows[i])

\* C15, amended: for a table in which exactly one record has Units_Sold =
\* -5, validate_data returns the negative-units finding once, as a message
\* of presence that carries no count (the findings are those of the table
\* with every record twice), and the record's derived fields are computed by
\* the formulas of every record.
C15_PresenceFinding ==
    (Validated /\ OneMinusFive) =>
        /\ Cardinality({k \in 1..Len(issues) :
                           issues[k] = "Negative units sold detected"}) = 1
        /\ issues = Issues(df \o df)
        /\ \A i \in 1..Len(inputRows) : DerivedByFormulas(df[i], inputRows[i])

\* the record P004 (-5 units at 19.99, stock 160, Dec) has been validated
\* next to a record without findings
C15_Witness ==
    /\ Validated
    /\ OneMinusFive
    /\ Len(inputRows) = 2
    /\ inputRows[1].Product_ID = "P001"
    /\ inputRows[2].Product_ID = "P004"
    /\ issues = <<"Negative units sold detected">>
    /\ df[2].Remaining_Stock = 165
    /\ df[2].Month_Num = IntCell(12)
    /\ df[2].Stock_Turnover_Rate = IntTrueDiv(-312, 100)
    /\ df[2].Total_Sales_Value.s = 1
    /\ df[2].Revenue_Per_Unit.s = 0

\* C16.  If the input file is missing, the run fails at load_raw_data: the
\* error leaves main() from its first step, no later step runs, and neither
\* the report nor the processed file is written.
C16_MissingInput ==
    /\ [](~inputExists =>
            /\ pc \in {"start", "failed"}
            /\ df = << >> /\ passed = << >>
            /\ report = << >> /\ output = << >>)
    /\ [](pc = "failed" => ~inputExists)
    /\ (~inputExists) ~> (pc = "failed")

\* a run on a missing file has failed, nothing written
C16_Witness ==
    /\ ~inputExists
    /\ pc = "failed"
    /\ report = << >>
    /\ output = << >>

\* the enriched record of a run on the input record t alone
EnrichedAlone(t) == Enrich(read_csv(<<t>>))[1]

\* the records a and b carry the same derived values
SameDerived(a, b) == \A k \in 1..Len(DerivedColumns) : a[DerivedColumns[k]] = b[DerivedColumns[k]]

\* C17.  Every derived attribute of an enriched record depends only on the
\* raw attributes of that record: in any table, at any position and next to
\* any other records, the record carries the derived values of a run on that
\* record alone; records with the same raw attributes carry the same derived
\* values, and the enriched table is determined by the input file.
C17_OwnRecordOnly ==
    Enriched =>
        /\ \A i \in Rows : SameDerived(df[i], EnrichedAlone(inputRows[i]))
        /\ \A i, j \in Rows :
              inputRows[i] = inputRows[j] => SameDerived(df[i], df[j])
        /\ passed[1].rows = Enrich(read_csv(inputRows))

\* a December record has been enriched after a January record and carries
\* the derived values of a run on it alone
C17_Witness ==
    /\ Enriched
    /\ Len(inputRows) = 2
    /\ inputRows[1].Month = "Jan" /\ inputRows[2].Month = "Dec"
    /\ df[2].Month_Num = IntCell(12)
    /\ SameDerived(df[2], EnrichedAlone(inputRows[2]))
    /\ ~SameDerived(df[2], df[1])

\* the table main() loaded and handed to add_calculated_columns, as it was
\* before the call
BeforeCall == [columns |-> RawColumns, rows |-> read_csv(inputRows)]

\* C18.  As stated: after add_calculated_columns(df) has returned, the table
\* object the caller passed in has the same columns and values as before the
\* call.
C18_ArgumentUntouched ==
    Enriched => passed = <<BeforeCall>>

\* C18, amended: add_calculated_columns adds the five derived columns to the
\* table object it is passed and returns that same object: after the call
\* the caller's table has the six raw columns followed by the five derived
\* ones, its Month column is the categorical, and its other raw values are
\* as before the call.
C18_ArgumentEnriched ==
    Enriched =>
        /\ Len(passed) = 1
        /\ passed[1].columns = RawColumns \o DerivedColumns
        /\ passed[1].columns # BeforeCall.columns
        /\ pc \in {"derived", "validated", "reported"} =>
              passed[1] = [columns |-> columns, rows |-> df]
        /\ Len(passed[1].rows) = Len(inputRows)
        /\ \A i \in 1..Len(inputRows) :
              /\ DOMAIN passed[1].rows[i] = Range(RawColumns \o DerivedColumns)
              /\ \A c \in Range(RawColumns) \ {"Month"} :
                    passed[1].rows[i][c] = BeforeCall.rows[i][c]
              /\ passed[1].rows[i].Month \in {BeforeCall.rows[i].Month, Missing}

\* add_calculated_columns has returned: the table main() passed in holds
\* eleven columns and a derived value
C18_Witness ==
    /\ pc = "derived"
    /\ Len(passed[1].columns) = 11
    /\ passed[1].rows = df
    /\ passed[1].rows[1].Remaining_Stock = 150
    /\ BeforeCall.rows[1].Units_Sold = 50

\* C19.  The table save_processed_data writes holds every column of the
\* input table and the five derived columns Total_Sales_Value, Month_Num,
\* Remaining_Stock, Stock_Turnover_Rate and Revenue_Per_Unit, and no other:
\* a header row of these eleven names, each once, no index column, and a
\* value for each of them in every row.
C19_OutputColumns ==
    pc = "done" =>
        LET header == output[1].header
        IN  /\ Range(header) = Range(RawColumns) \cup Range(DerivedColumns)
            /\ Len(header) = Len(RawColumns) + 5
            /\ \A j, k \in 1..Len(header) : header[j] = header[k] => j = k
            /\ Len(output[1].rows) = Len(inputRows)
            /\ \A i \in 1..Len(output[1].rows) :
                  /\ DOMAIN output[1].rows[i] = Range(header)
                  /\ \A c \in Range(RawColumns) \ {"Month", "Price"} :
                        output[1].rows[i][c] = inputRows[i][c]

\* a table of two records has been written: eleven names in the header,
\* Product_ID first, the derived values in the rows
C19_Witness ==
    /\ pc = "done"
    /\ Len(output[1].rows) = 2
    /\ Len(output[1].header) = 11
    /\ output[1].header[1] = "Product_ID"
    /\ output[1].header[11] = "Stock_Turnover_Rate"
    /\ output[1].rows[2].Remaining_Stock = 150

\* the record e carries the raw attributes of the input record t
RawKept(e, t) ==
    /\ e.Product_ID = t.Product_ID
    /\ e.Product_Name = t.Product_Name
    /\ e.Month = t.Month
    /\ e.Units_Sold = t.Units_Sold
    /\ e.Price = IntTrueDiv(t.Price, 100)
    /\ e.Opening_Stock = t.Opening_Stock

\* C20.  As stated: in the enriched record, and in the record written to the
\* file, the raw attributes Product_ID, Product_Name, Month, Units_Sold,
\* Price and Opening_Stock keep exactly the values of the input record, for
\* every input record, an unrecognized month label included.
C20_RawAttributesKept ==
    /\ Enriched => \A i \in Rows : RawKept(df[i], inputRows[i])
    /\ pc = "done" =>
          \A i \in 1..Len(output[1].rows) : RawKept(output[1].rows[i], inputRows[i])

\* C21.  No step of the pipeline writes to, replaces or removes the input
\* file: the report and the processed table go to paths other than the input
\* path, every step leaves the input file as it was, and the table written
\* is the one recomputed from the input file as it still is.
C21_InputUntouched ==
    /\ [][inputRows' = inputRows /\ inputExists' = inputExists]_vars
    /\ [](INPUT_PATH \notin {OUTPUT_PATH, REPORT_PATH})
    /\ [](pc = "done" => Len(inputRows) = Len(output[1].rows))

\* the report and the processed table have been written, and the input file
\* still holds the text rows the written table is computed from
C21_Witness ==
    /\ pc = "done"
    /\ Len(report) = 1
    /\ Len(output) = 1
    /\ Len(inputRows) = 2
    /\ DOMAIN inputRows[1] = Range(RawColumns)
    /\ output[1].rows = SelectColumns(Enrich(read_csv(inputRows)), column_order)

\* generate_report has written the report
Reported == pc \in {"reported", "done"}

\* The lists validate_data can return: the messages of any set of the three
\* checks, in the order of the checks
PossibleIssues ==
    {SelectSeq(<<"Negative units sold detected", "Negative prices detected",
                 "Negative opening stock detected">>, LAMBDA m : m \in S) :
        S \in SUBSET NegativeMessages}

\* the report generate_report would write for the findings found
ReportFor(found) == ReportOf(df, columns, missing_before, found)

\* C22.  As stated: the report lists the record count and the findings of
\* the run: every finding raised (each negative-value tag, and the turnover
\* finding) appears in it, so that the report of a run is not the report of
\* the same table with other findings or without the turnover finding.
C22_FindingsListed ==
    Reported =>
        /\ report[1].Records_Processed = Len(inputRows)
        /\ \A other \in PossibleIssues \ {issues} : report[1] # ReportFor(other)
        /\ warnings # << >> => report[1].Validation_Issues > Len(issues)

\* C22, amended: the report lists the record count and the number of
\* negative-value findings validate_data returned; it names none of them
\* (the report is the one of any other findings of the same number) and
\* does not mention the turnover warning.
C22_FindingsCounted ==
    Reported =>
        /\ report[1].Records_Processed = Len(inputRows)
        /\ report[1].Final_Records = Len(inputRows)
        /\ report[1].Validation_Issues =
               Cardinality({c \in {"Units_Sold", "Price", "Opening_Stock"} : SomeNegative(c)})
        /\ \A other \in PossibleIssues :
               Len(other) = Len(issues) <=> report[1] = ReportFor(other)

\* a table with a negative count sold and a record above 100% has been
\* reported: the report counts one issue, as it would for another finding,
\* and nothing of the turnover warning
C22_Witness ==
    /\ Reported
    /\ Len(inputRows) = 2
    /\ report[1].Records_Processed = 2
    /\ issues = <<"Negative units sold detected">>
    /\ warnings = TurnoverWarning(1)
    /\ report[1].Validation_Issues = 1
    /\ report[1] = ReportFor(<<"Negative prices detected">>)

\* the orders in which n records can be arranged
Orders(n) == {p \in [1..n -> 1..n] : \A i, j \in 1..n : p[i] = p[j] => i = j}

\* the table with its records arranged in the order p
Rearranged(table, p) == [i \in 1..Len(table) |-> table[p[i]]]

\* C23.  The validation findings do not depend on the order of the records:
\* on the enriched records in any order, validate_data returns the findings
\* it returned in this run and counts as many records above 100.
C23_OrderIndependent ==
    Validated =>
        \A p \in Orders(Len(df)) :
            /\ Issues(Rearranged(df, p)) = issues
            /\ TurnoverWarning(Cardinality(HighTurnover(Rearranged(df, p)))) = warnings

\* a table whose first record is clean and whose second record has a
\* negative count sold and a rate above 100 has been validated; the table
\* in the other order gives the same findings
C23_Witness ==
    /\ Validated
    /\ Len(df) = 2
    /\ inputRows[1].Product_ID = "P001"
    /\ inputRows[2].Product_ID = "P007"
    /\ Len(issues) = 3
    /\ warnings = TurnoverWarning(1)
    /\ Rearranged(df, <<2, 1>>) # df
    /\ Issues(Rearranged(df, <<2, 1>>)) = issues
    /\ HighTurnover(Rearranged(df, <<2, 1>>)) = {1}
    /\ HighTurnover(df) = {2}

\* C24.  In the statistical-analysis script, when the data file is missing,
\* load_data returns None without raising, and main() then returns: it runs
\* none of statistical_operations, calculate_remaining_stock and
\* save_statistics, and no statistics file is written.
C24_MissingDataFile ==
    /\ [][analysis.pc = "none" => analysis'.pc = "stopped"]_vars
    /\ [](analysis.pc \in {"none", "stopped"} =>
            /\ output = << >>
            /\ analysis.df = << >>
            /\ analysis.stats = << >>
            /\ analysis.remaining = << >>
            /\ analysis.file = << >>)
    /\ []((output = << >> /\ analysis.pc # "idle") =>
            analysis.pc \in {"none", "stopped"})

\* the script has been run after a failed run of the pipeline, which left no
\* data file, and has stopped without a statistics file
C24_Witness ==
    /\ pc = "failed"
    /\ output = << >>
    /\ analysis.pc = "stopped"
    /\ analysis.file = << >>

\* the rows of dataset/updated_dataset.csv
Processed == output[1].rows

\* C25.  As stated: the monthly aggregation of prepare_monthly_data accounts
\* for every record of the processed table: every record is in the group of
\* its Month_Num, and the sums over all groups of Units_Sold and of
\* Total_Sales_Value are the sums over all records, records with an
\* unrecognized month label included.
C25_EveryRecordAggregated ==
    pc = "done" =>
        LET monthly_sales == prepare_monthly_data(Processed)
        IN  /\ \A i \in 1..Len(Processed) :
                  \E g \in 1..Len(monthly_sales) :
                      Processed[i].Month_Num = IntCell(monthly_sales[g].Month_Num)
            /\ SumOf(Column(monthly_sales, "Units_Sold"))
                   = SumOf(Column(Processed, "Units_Sold"))
            /\ FEq(SeriesSum(Column(monthly_sales, "Total_Sales_Value")),
                   SeriesSum(Column(Processed, "Total_Sales_Value")))

\* C26.  As stated: on every record with Opening_Stock > 0 the dashboard's
\* flag (Units_Sold / Opening_Stock > 0.7) and data_transformation's flag
\* (the rounded percentage > 70) are equal, and the dashboard's
\* Stock_Efficiency is the record's Stock_Turnover_Rate.
C26_FlagsAgree ==
    pc = "done" =>
        \A i \in 1..Len(Processed) :
            inputRows[i].Opening_Stock > 0 =>
                /\ app_load_data(Processed)[i].Stockout_Risk
                       = data_transformation(Processed)[i].Stockout_Risk
                /\ app_load_data(Processed)[i].Stock_Efficiency
                       = Processed[i].Stock_Turnover_Rate

\* C27.  Enrichment is idempotent: add_calculated_columns applied to the
\* table it has already enriched leaves the same columns, in the same
\* order, and the same value in every raw and derived cell of every row
\* (an undefined cell stays undefined, an unrecognized month stays missing).
C27_EnrichmentIdempotent ==
    pc = "derived" =>
        LET again == Enrich(df)
        IN  /\ again = df
            /\ AssignColumns(columns, DerivedColumns) = columns
            /\ Len(columns) = Len(RawColumns) + Len(DerivedColumns)
            /\ \A i \in 1..Len(df) :
                  /\ DOMAIN again[i] = Range(columns)
                  /\ \A c \in Range(columns) : again[i][c] = df[i][c]

\* an enriched two-row table with an unrecognized month (missing after the
\* first pass, Month_Num undefined) and a record with nothing sold (revenue
\* per unit undefined), on which a second pass changes nothing
C27_Witness ==
    /\ pc = "derived"
    /\ Len(df) = 2
    /\ inputRows[1].Month = "Foo"
    /\ df[1].Month = Missing
    /\ IsNaN(df[1].Month_Num)
    /\ IsNaN(df[1].Revenue_Per_Unit)
    /\ df[2].Month # Missing
    /\ Enrich(df)[1] = df[1]
    /\ Enrich(df)[2] = df[2]

\* C28.  As stated: the steps run in the order load, inspect, derive,
\* validate, report, save (each artefact is there from its step on and not
\* before), and in every state where the report file exists, with its line
\* 'Preprocessing completed successfully!', the processed CSV has already
\* been written.
C28_ReportAfterSave ==
    /\ df # << >>      <=> pc \in {"loaded", "inspected", "derived", "validated",
                                   "reported", "done"}
    /\ passed # << >>  <=> pc \in {"derived", "validated", "reported", "done"}
    /\ report # << >>  <=> pc \in {"reported", "done"}
    /\ report # << >>  => report[1].Completed /\ output # << >>

\* C29.  As stated: a record with Opening_Stock > 0 and Units_Sold >= 0 is
\* counted by the validation's check Stock_Turnover_Rate > 100 exactly when
\* its Remaining_Stock is negative (more was sold than was in stock).
C29_CountedIffOversold ==
    Validated =>
        \A i \in 1..Len(df) :
            (df[i].Opening_Stock > 0 /\ df[i].Units_Sold >= 0) =>
                /\ i \in HighTurnover(df) <=> df[i].Remaining_Stock < 0
                /\ Len(df) = 1 =>
                      warnings = TurnoverWarning(IF df[i].Remaining_Stock < 0
                                                 THEN 1 ELSE 0)

\* C30.  As stated: for a processed table whose Month_Num values are all in
\* 1..12, save_forecast_report completes, every historical line carries the
\* month name of its own Month_Num, the 'Total H1 (Jan-Jun)' figure is the
\* sum of Total_Sales_Value over the months 1..6 only, and no historical
\* month is among the forecast months 7..12.
C30_ForecastReport ==
    (pc = "done" /\ \A i \in 1..Len(Processed) : ~IsNaN(Processed[i].Month_Num)) =>
        LET monthly_sales == prepare_monthly_data(Processed)
            saved    == save_forecast_report(monthly_sales)
            forecast == forecast_future_months(monthly_sales)
            h1       == SelectSeq(monthly_sales, LAMBDA g : g.Month_Num <= 6)
        IN  /\ saved.raised = ""
            /\ Len(saved.historical) = Len(monthly_sales)
            /\ \A g \in 1..Len(saved.historical) :
                  saved.historical[g].month_name
                      = month_order[saved.historical[g].Month_Num]
            /\ Len(saved.Total_H1) = 1
            /\ FEq(saved.Total_H1[1], SeriesSum(Column(h1, "Total_Sales_Value")))
            /\ FEq(forecast.h1_actual, SeriesSum(Column(h1, "Total_Sales_Value")))
            /\ \A g \in 1..Len(monthly_sales) :
                  monthly_sales[g].Month_Num \notin Range(forecast.Month_Num)

====
